---------------------------- MODULE Spec2Model ----------------------------
(***************************************************************************)
(* A model of fact-matrix/fact_matrix.py: the FactDatabase store, its      *)
(* direct-contradiction test, the bounded depth-first search for           *)
(* supporting paths, the indirect-contradiction search and the trust       *)
(* arithmetic.                                                             *)
(*                                                                         *)
(* Numbers.  Python computes path trust in IEEE 754 doubles.  The model     *)
(* computes the same expressions on binary numerals of any length and      *)
(* rounds where Python rounds: after each float product and each division  *)
(* by 10000, to 53 bits, ties to even, with gradual underflow and          *)
(* overflow to Infinity.                                                   *)
(***************************************************************************)
EXTENDS Integers, Sequences, FiniteSets, TLC

VARIABLES
    facts,        \* FactDatabase.facts: the dict, as its entries in insertion order
    call,         \* the last operation invoked on the database, with its arguments
    ret,          \* what that operation returned
    stack,        \* explore_path: the activation records of the running search
    visited,      \* _find_supporting_paths: the local set `visited`
    paths,        \* _find_supporting_paths: the local list `paths`
    seen_paths    \* _find_supporting_paths: the local set `seen_paths`

vars == <<facts, call, ret, stack, visited, paths, seen_paths>>

(***************************************************************************)
(* Bounds of the model.                                                    *)
(***************************************************************************)
\* The largest number of distinct address pairs the store is filled with
\* when the two public queries are called on it (Spec).
MaxFacts == 4
\* The same where the path search is run step by step (SpecSearch).
MaxSearchFacts == 5

(***************************************************************************)
(* Data: class Fact, nodes (category, value) and dictionary keys.          *)
(***************************************************************************)
Fact(c1, v1, c2, v2, t) ==
    [category1 |-> c1, value1 |-> v1, category2 |-> c2, value2 |-> v2,
     trust_score |-> t]

\* key = ((fact.category1, fact.value1), (fact.category2, fact.value2))
FactKey(fact) ==
    << <<fact.category1, fact.value1>>, <<fact.category2, fact.value2>> >>

NewFactKey(category1, value1, category2, value2) ==
    << <<category1, value1>>, <<category2, value2>> >>

\* The value of Python's None, and the mark of a call that has not returned.
None == [none |-> TRUE]
Pending == [pending |-> TRUE]
\* A call that has returned v.
Returned(v) == [value |-> v]

(***************************************************************************)
(* Python numbers.  A finite number is [bits, exp]: the binary numeral     *)
(* `bits` (most significant bit first) times 2^exp.  The numeral neither   *)
(* starts nor ends with 0 and zero is the empty numeral with exp 0, so     *)
(* equal numbers are equal values.  A float is a number of at most 53 bits *)
(* with -1074 <= exp and a value below 2^1024, or Infinity, or NaN.  An    *)
(* int and the float equal to it are the same value, as they are equal in  *)
(* Python.  Numbers are non-negative: trust scores are ints >= 0.          *)
(***************************************************************************)
Zero == [bits |-> <<>>, exp |-> 0]
Infinity == [inf |-> TRUE]
NaN == [nan |-> TRUE]

IsFinite(a) == a # Infinity /\ a # NaN

\* The number bits * 2^e in canonical form: `lead` zeros are dropped at the
\* high end and `trail` zeros are moved into the exponent at the low end.
Dyadic(bits, e) ==
    LET len == Len(bits)
        lead == CHOOSE k \in 0..(len - 1) :
                    bits[k + 1] = 1 /\ \A j \in 1..k : bits[j] = 0
        trail == CHOOSE k \in 0..(len - 1) :
                     bits[len - k] = 1 /\ \A j \in 1..k : bits[len + 1 - j] = 0
    IN  IF \A i \in 1..len : bits[i] = 0 THEN Zero
        ELSE [bits |-> SubSeq(bits, lead + 1, len - trail), exp |-> e + trail]

RECURSIVE BitsOf(_)
BitsOf(n) == IF n = 0 THEN <<>> ELSE Append(BitsOf(n \div 2), n % 2)

\* The int n >= 0.
Num(n) == Dyadic(BitsOf(n), 0)

\* Column k of the long multiplication of x by y: the sum of x[i] * y[j]
\* over i + j = k + 1, for i in lo..hi.  The range is halved, not walked, so
\* that the evaluation nests no deeper than the logarithm of the length.
RECURSIVE Column(_, _, _, _, _)
Column(x, y, k, lo, hi) ==
    IF lo > hi THEN 0
    ELSE IF lo = hi THEN x[lo] * y[k + 1 - lo]
    ELSE LET mid == (lo + hi) \div 2
         IN  Column(x, y, k, lo, mid) + Column(x, y, k, mid + 1, hi)

Columns(x, y) ==
    IF x = <<>> \/ y = <<>> THEN <<>>
    ELSE [k \in 1..(Len(x) + Len(y) - 1) |->
             Column(x, y, k,
                    IF k + 1 - Len(y) > 1 THEN k + 1 - Len(y) ELSE 1,
                    IF k < Len(x) THEN k ELSE Len(x))]

\* The carries taken through columns hi down to lo: the bits left there,
\* least significant first, and the carry that leaves at the high end.
RECURSIVE Carried(_, _, _, _)
Carried(cols, lo, hi, carry) ==
    IF lo > hi THEN [bits |-> <<>>, carry |-> carry]
    ELSE IF lo = hi
    THEN [bits |-> <<(cols[lo] + carry) % 2>>,
          carry |-> (cols[lo] + carry) \div 2]
    ELSE LET mid == (lo + hi) \div 2
             low == Carried(cols, mid + 1, hi, carry)
             high == Carried(cols, lo, mid, low.carry)
         IN  [bits |-> low.bits \o high.bits, carry |-> high.carry]

Reverse(s) == [i \in 1..Len(s) |-> s[Len(s) + 1 - i]]

\* The exact product of two finite numbers: Python's int * int.
MulExact(a, b) ==
    LET cols == Columns(a.bits, b.bits)
        done == Carried(cols, 1, Len(cols), 0)
    IN  Dyadic(BitsOf(done.carry) \o Reverse(done.bits), a.exp + b.exp)

\* bits + 1, for a numeral that may start with 0.
Increment(bits) ==
    LET zeros == {i \in 1..Len(bits) : bits[i] = 0}
        z == CHOOSE i \in zeros : \A j \in zeros : j <= i
    IN  IF zeros = {} THEN <<1>> \o [i \in 1..Len(bits) |-> 0]
        ELSE [i \in 1..Len(bits) |->
                 IF i < z THEN bits[i] ELSE IF i = z THEN 1 ELSE 0]

\* The float nearest to the finite number a, ties to the even float (IEEE 754
\* binary64, round-half-even): 53 bits are kept, fewer below 2^-1022 where
\* the last bit of a float stands at 2^-1074; what reaches 2^1024 is Infinity.
Round(a) ==
    IF a = Zero THEN Zero
    ELSE LET len == Len(a.bits)
             top == len + a.exp
             last == IF top - 53 > -1074 THEN top - 53 ELSE -1074
             keep == len - (last - a.exp)
         IN  IF keep >= len THEN (IF top > 1024 THEN Infinity ELSE a)
             ELSE IF keep < 0 THEN Zero
             ELSE LET kept == SubSeq(a.bits, 1, keep)
                      half == a.bits[keep + 1] = 1
                      \* the numeral ends with 1: a bit is set below the
                      \* half bit whenever there is one
                      sticky == keep + 1 < len
                      odd == keep > 0 /\ a.bits[keep] = 1
                      rounded == IF half /\ (sticky \/ odd)
                                 THEN Increment(kept) ELSE kept
                      result == Dyadic(rounded, last)
                  IN  IF result # Zero /\ Len(result.bits) + result.exp > 1024
                      THEN Infinity ELSE result

\* Python's a < b.
FloatLess(a, b) ==
    IF a = NaN \/ b = NaN THEN FALSE
    ELSE IF a = Infinity THEN FALSE
    ELSE IF b = Infinity THEN TRUE
    ELSE IF b = Zero THEN FALSE
    ELSE IF a = Zero THEN TRUE
    ELSE LET top_a == Len(a.bits) + a.exp
             top_b == Len(b.bits) + b.exp
             n == IF Len(a.bits) > Len(b.bits) THEN Len(a.bits) ELSE Len(b.bits)
             xa == [i \in 1..n |-> IF i <= Len(a.bits) THEN a.bits[i] ELSE 0]
             xb == [i \in 1..n |-> IF i <= Len(b.bits) THEN b.bits[i] ELSE 0]
         IN  IF top_a # top_b THEN top_a < top_b
             ELSE \E i \in 1..n :
                      /\ xa[i] < xb[i]
                      /\ \A j \in 1..(i - 1) : xa[j] = xb[j]

\* Python's a <= b.
FloatLeq(a, b) == a # NaN /\ b # NaN /\ ~FloatLess(b, a)

\* Python's min(a, b) and max(a, b): b when b < a (b > a), else a.
FloatMin(a, b) == IF FloatLess(b, a) THEN b ELSE a
FloatMax(a, b) == IF FloatLess(a, b) THEN b ELSE a

\* Python's a * b where one operand at least is a float.
FloatMul(a, b) ==
    IF a = NaN \/ b = NaN THEN NaN
    ELSE IF a = Infinity \/ b = Infinity
    THEN (IF a = Zero \/ b = Zero THEN NaN ELSE Infinity)
    ELSE Round(MulExact(a, b))

\* The long division by 10000 of bits lo..hi, entered with remainder rem.
RECURSIVE Divided(_, _, _, _)
Divided(bits, lo, hi, rem) ==
    IF lo > hi THEN [bits |-> <<>>, rem |-> rem]
    ELSE IF lo = hi
    THEN [bits |-> <<(2 * rem + bits[lo]) \div 10000>>,
          rem |-> (2 * rem + bits[lo]) % 10000]
    ELSE LET mid == (lo + hi) \div 2
             high == Divided(bits, lo, mid, rem)
             low == Divided(bits, mid + 1, hi, high.rem)
         IN  [bits |-> high.bits \o low.bits, rem |-> low.rem]

\* n < 2^16 as a numeral of 16 bits.
Bits16(n) == [i \in 1..16 |-> (n \div (2 ^ (16 - i))) % 2]

\* The same division carried on below the point, 16 zero bits at a time, for
\* `chunks` times 16 bits or until it leaves no remainder: the bits of the
\* quotient found and the remainder left.
RECURSIVE Extended(_, _)
Extended(rem, chunks) ==
    IF rem = 0 \/ chunks = 0 THEN [bits |-> <<>>, rem |-> rem]
    ELSE LET more == Extended((rem * 65536) % 10000, chunks - 1)
         IN  [bits |-> Bits16((rem * 65536) \div 10000) \o more.bits,
              rem |-> more.rem]

\* Python's a / 10000 for an int or a float a: the quotient, rounded once.
\* The quotient is taken to 80 bits below the point unless it ends before;
\* 80 bits leave it 67 bits or more, and a bit is set below them when the
\* division still leaves a remainder.
TrueDiv10000(a) ==
    IF ~IsFinite(a) \/ a = Zero THEN a
    ELSE LET whole == Divided(a.bits, 1, Len(a.bits), 0)
             fraction == Extended(whole.rem, 5)
             inexact == IF fraction.rem = 0 THEN 0 ELSE 1
         IN  Round(Dyadic(whole.bits \o fraction.bits \o <<inexact>>,
                          a.exp - Len(fraction.bits) - 1))

\* 0.5 ** n for an int n.
HalfPower(n) == Round([bits |-> <<1>>, exp |-> -n])

(***************************************************************************)
(* FactDatabase.add_fact: self.facts[key] = fact.  A Python dict keeps     *)
(* insertion order; assigning to a key already present replaces the value  *)
(* in place, assigning to a new key appends an entry.                      *)
(***************************************************************************)
Keys(db) == {FactKey(db[i]) : i \in 1..Len(db)}

add_fact_always_append(db, fact) == Append(db, fact)

add_fact(db, fact) ==
    IF \E i \in 1..Len(db) : FactKey(db[i]) = FactKey(fact)
    THEN [i \in 1..Len(db) |->
              IF FactKey(db[i]) = FactKey(fact) THEN fact ELSE db[i]]
    ELSE Append(db, fact)

(***************************************************************************)
(* FactDatabase._directly_contradicts                                      *)
(***************************************************************************)
_directly_contradicts_any_order(fact1_key, fact2_key) ==
    LET a1 == fact1_key[1]
        a2 == fact1_key[2]
        b1 == fact2_key[1]
        b2 == fact2_key[2]
    IN  \/ /\ a1[1] = b1[1] /\ a2[1] = b2[1]
           /\ \/ (a1[2] = b1[2] /\ a2[2] # b2[2])
              \/ (a2[2] = b2[2] /\ a1[2] # b1[2])
        \/ /\ a1[1] = b2[1] /\ a2[1] = b1[1]
           /\ \/ (a1[2] = b2[2] /\ a2[2] # b1[2])
              \/ (a2[2] = b1[2] /\ a1[2] # b2[2])

_directly_contradicts(fact1_key, fact2_key) ==
    LET cat1_a == fact1_key[1][1]
        val1_a == fact1_key[1][2]
        cat2_a == fact1_key[2][1]
        val2_a == fact1_key[2][2]
        cat1_b == fact2_key[1][1]
        val1_b == fact2_key[1][2]
        cat2_b == fact2_key[2][1]
        val2_b == fact2_key[2][2]
    IN  IF cat1_a = cat1_b /\ cat2_a = cat2_b
        THEN \/ (val1_a = val1_b /\ val2_a # val2_b)
             \/ (val2_a = val2_b /\ val1_a # val1_b)
        ELSE FALSE

(***************************************************************************)
(* FactDatabase._calculate_path_trust                                      *)
(***************************************************************************)
\* One turn of the loop body: decay = (path[i].trust_score * trust) / 10000;
\* trust = min(trust, path[i].trust_score) * decay.  In the first turn trust
\* is path[0].trust_score, an int, and the product of the two ints is exact;
\* from the second turn on trust is a float and so is the product.
DecayStep(trust, score, trust_is_int) ==
    LET product == IF trust_is_int THEN MulExact(Num(score), trust)
                   ELSE FloatMul(Num(score), trust)
        decay == TrueDiv10000(product)
    IN  FloatMul(FloatMin(trust, Num(score)), decay)

RECURSIVE PathTrustFrom(_, _, _)
PathTrustFrom(path, i, trust) ==
    IF i > Len(path) THEN trust
    ELSE PathTrustFrom(path, i + 1,
                       DecayStep(trust, path[i].trust_score, i = 2))

RECURSIVE MinTrustFrom(_, _, _)
MinTrustFrom(path, i, trust) ==
    IF i > Len(path) THEN trust
    ELSE MinTrustFrom(path, i + 1, FloatMin(trust, Num(path[i].trust_score)))

_calculate_path_trust_no_decay(path) ==
    IF path = <<>> THEN Num(0)
    ELSE MinTrustFrom(path, 2, Num(path[1].trust_score))

_calculate_path_trust(path) ==
    IF path = <<>> THEN Num(0)
    ELSE PathTrustFrom(path, 2, Num(path[1].trust_score))

\* path_trust * (0.5 ** (len(path) - 1))
_calculate_contradiction_impact(path) ==
    FloatMul(_calculate_path_trust(path), HalfPower(Len(path) - 1))

(***************************************************************************)
(* FactDatabase._find_supporting_paths and its nested explore_path         *)
(***************************************************************************)
\* `if depth > 3: return`
DepthLimitShort == 3 - 1
DepthLimitLong == 3 + 1

DepthLimit == 3

\* The test whether a fact connects to the current position, and the node
\* the hop leads to: the fact's second node when its first is the current
\* one, else its first node when its second is the current one.
Hop_forward_only(fact, current) ==
    IF <<fact.category1, fact.value1>> = current
    THEN [connects_to_current |-> TRUE,
          next |-> <<fact.category2, fact.value2>>]
    ELSE [connects_to_current |-> FALSE, next |-> None]

Hop(fact, current) ==
    IF fact.category1 = current[1] /\ fact.value1 = current[2]
    THEN [connects_to_current |-> TRUE,
          next |-> <<fact.category2, fact.value2>>]
    ELSE IF fact.category2 = current[1] /\ fact.value2 = current[2]
    THEN [connects_to_current |-> TRUE,
          next |-> <<fact.category1, fact.value1>>]
    ELSE [connects_to_current |-> FALSE, next |-> None]

\* path_key = frozenset(((f.category1, f.value1), (f.category2, f.value2))
\*                      for f in new_path)
PathKey(path) == {FactKey(path[k]) : k \in 1..Len(path)}

\* The target is reached: append the path unless its key set was seen.
\* found = [paths, seen_paths], the two locals the search accumulates.
RecordPath_no_dedup(found, new_path) ==
    [paths |-> Append(found.paths, new_path),
     seen_paths |-> found.seen_paths \cup {PathKey(new_path)}]

RecordPath(found, new_path) ==
    IF PathKey(new_path) \notin found.seen_paths
    THEN [paths |-> Append(found.paths, new_path),
          seen_paths |-> found.seen_paths \cup {PathKey(new_path)}]
    ELSE found

\* explore_path, resumed at entry i of the loop over self.facts.items(): the
\* paths that reach the target from here on, in the order the search meets
\* them.  vis is `visited` as it stands at this point of the run: the key is
\* in it during the recursive call and out of it again afterwards.
\* seen_paths decides only whether a path that has reached the target is
\* appended, never where the search goes, so it is applied to these arrivals
\* in the same order by RecordAll below.
RECURSIVE explore_path(_, _, _, _, _, _, _)
explore_path(db, i, current, target, current_path, depth, vis) ==
    IF depth > DepthLimit \/ i > Len(db) THEN <<>>
    ELSE
      LET fact == db[i]
          key == FactKey(fact)
          hop == Hop(fact, current)
          new_path == Append(current_path, fact)
          here ==
            IF key \in vis \/ ~hop.connects_to_current THEN <<>>
            ELSE IF hop.next = target THEN <<new_path>>
            ELSE explore_path(db, 1, hop.next, target, new_path, depth + 1,
                              vis \cup {key})
      IN  here \o explore_path(db, i + 1, current, target, current_path,
                               depth, vis)

\* paths and seen_paths after the first k arrivals.
RECURSIVE RecordAll(_, _)
RecordAll(arrivals, k) ==
    IF k = 0 THEN [paths |-> <<>>, seen_paths |-> {}]
    ELSE RecordPath(RecordAll(arrivals, k - 1), arrivals[k])

_find_supporting_paths(db, fact_key) ==
    LET arrivals == explore_path(db, 1, fact_key[1], fact_key[2], <<>>, 0, {})
    IN  RecordAll(arrivals, Len(arrivals)).paths

(***************************************************************************)
(* FactDatabase.get_fact_trust                                             *)
(***************************************************************************)
\* The list of stored facts that directly contradict the candidate.
DirectContradictions(db, new_fact_key) ==
    SelectSeq(db, LAMBDA existing_fact :
                    _directly_contradicts(new_fact_key, FactKey(existing_fact)))

\* max(fact.trust_score for fact in direct_contradictions)
MaxTrustScore(fs) ==
    CHOOSE m \in {fs[i].trust_score : i \in 1..Len(fs)} :
        \A i \in 1..Len(fs) : fs[i].trust_score <= m

\* The loop `max_support = max(max_support, path_trust)`.
RECURSIVE MaxSupportFrom(_, _, _)
MaxSupportFrom(supporting_paths, i, max_support) ==
    IF i > Len(supporting_paths) THEN max_support
    ELSE MaxSupportFrom(supporting_paths, i + 1,
             FloatMax(max_support, _calculate_path_trust(supporting_paths[i])))

DefaultTrust == 50

get_fact_trust_support_first(db, category1, value1, category2, value2) ==
    LET new_fact_key == NewFactKey(category1, value1, category2, value2)
        direct_contradictions == DirectContradictions(db, new_fact_key)
        supporting_paths == _find_supporting_paths(db, new_fact_key)
    IN  IF supporting_paths # <<>>
        THEN MaxSupportFrom(supporting_paths, 1, Num(0))
        ELSE IF direct_contradictions # <<>>
        THEN LET contradiction_impact == MaxTrustScore(direct_contradictions)
             IN  Num(IF 100 - contradiction_impact > 0
                     THEN 100 - contradiction_impact ELSE 0)
        ELSE Num(DefaultTrust)

get_fact_trust_zero_default(db, category1, value1, category2, value2) ==
    LET new_fact_key == NewFactKey(category1, value1, category2, value2)
        direct_contradictions == DirectContradictions(db, new_fact_key)
        supporting_paths == _find_supporting_paths(db, new_fact_key)
    IN  IF direct_contradictions # <<>>
        THEN LET contradiction_impact == MaxTrustScore(direct_contradictions)
             IN  Num(IF 100 - contradiction_impact > 0
                     THEN 100 - contradiction_impact ELSE 0)
        ELSE MaxSupportFrom(supporting_paths, 1, Num(0))

get_fact_trust(db, category1, value1, category2, value2) ==
    LET new_fact_key == NewFactKey(category1, value1, category2, value2)
        direct_contradictions == DirectContradictions(db, new_fact_key)
        supporting_paths == _find_supporting_paths(db, new_fact_key)
    IN  IF direct_contradictions # <<>>
        THEN LET contradiction_impact == MaxTrustScore(direct_contradictions)
             IN  Num(IF 100 - contradiction_impact > 0
                     THEN 100 - contradiction_impact ELSE 0)
        ELSE IF supporting_paths # <<>>
        THEN MaxSupportFrom(supporting_paths, 1, Num(0))
        ELSE Num(DefaultTrust)

(***************************************************************************)
(* FactDatabase._find_all_connections, _leads_to_contradiction and         *)
(* _find_indirect_contradictions                                           *)
(***************************************************************************)
_find_all_connections_first_side_only(db, category, value) ==
    {<<db[i].category2, db[i].value2>> :
        i \in {j \in 1..Len(db) :
                 db[j].category1 = category /\ db[j].value1 = value}}

_find_all_connections(db, category, value) ==
    {<<db[i].category2, db[i].value2>> :
        i \in {j \in 1..Len(db) :
                 db[j].category1 = category /\ db[j].value1 = value}}
    \cup
    {<<db[i].category1, db[i].value1>> :
        i \in {j \in 1..Len(db) :
                 /\ ~(db[j].category1 = category /\ db[j].value1 = value)
                 /\ db[j].category2 = category /\ db[j].value2 = value}}

_leads_to_contradiction(path, fact_key) ==
    IF path = <<>> THEN FALSE
    ELSE _directly_contradicts(FactKey(path[Len(path)]), fact_key)

\* The orders in which a Python set of nodes may be iterated: the order is
\* that of the hash table, which the program does not control.
IterationOrders(S) ==
    {order \in [1..Cardinality(S) -> S] :
        \A x \in S : \E i \in 1..Cardinality(S) : order[i] = x}

\* One of the two loops of _find_indirect_contradictions: for every connected
\* node, in iteration order, the supporting paths from `from` to it that lead
\* to a contradiction are appended to contradicting_paths.
RECURSIVE ContradictingPathsFrom(_, _, _, _, _, _)
ContradictingPathsFrom(db, fact_key, from, order, i, contradicting_paths) ==
    IF i > Len(order) THEN contradicting_paths
    ELSE ContradictingPathsFrom(db, fact_key, from, order, i + 1,
             contradicting_paths \o
             SelectSeq(_find_supporting_paths(db, <<from, order[i]>>),
                       LAMBDA path : _leads_to_contradiction(path, fact_key)))

\* order1 and order2 are the iteration orders of val1_connections and
\* val2_connections.
_find_indirect_contradictions(db, fact_key, order1, order2) ==
    ContradictingPathsFrom(db, fact_key, fact_key[2], order2, 1,
        ContradictingPathsFrom(db, fact_key, fact_key[1], order1, 1, <<>>))

(***************************************************************************)
(* FactDatabase.analyze_fact_relationships                                 *)
(***************************************************************************)
analyze_fact_relationships(db, category1, value1, category2, value2, order1, order2) ==
    LET new_fact_key == NewFactKey(category1, value1, category2, value2)
        direct == DirectContradictions(db, new_fact_key)
        supporting_paths == _find_supporting_paths(db, new_fact_key)
        indirect_contradictions ==
            _find_indirect_contradictions(db, new_fact_key, order1, order2)
    IN  [direct_contradictions |->
            [i \in 1..Len(direct) |->
                [fact |-> direct[i], trust |-> Num(direct[i].trust_score)]],
         supporting_facts |->
            [i \in 1..Len(supporting_paths) |->
                [path |-> supporting_paths[i],
                 trust |-> _calculate_path_trust(supporting_paths[i])]],
         indirect_contradictions |->
            [i \in 1..Len(indirect_contradictions) |->
                [path |-> indirect_contradictions[i],
                 trust |-> _calculate_contradiction_impact(
                               indirect_contradictions[i])]]]

(***************************************************************************)
(* FactDatabase.get_all_related_facts                                      *)
(***************************************************************************)
get_all_related_facts(db, category, value) ==
    SelectSeq(db, LAMBDA fact :
        \/ (fact.category1 = category /\ fact.value1 = value)
        \/ (fact.category2 = category /\ fact.value2 = value))

(***************************************************************************)
(* The inputs the model draws.  The nodes are those of the puzzle the      *)
(* tests and the command-line scripts seed; the facts are chosen so that   *)
(* the store can hold two facts that contradict one candidate, a pair of   *)
(* reversed keys, a fact from a node to itself, a chain of four facts and  *)
(* a walk of five, and one address pair under two trust scores.            *)
(***************************************************************************)
Alex    == <<"Name", "Alex">>
Brooke  == <<"Name", "Brooke">>
Blue    == <<"House", "Blue">>
Red     == <<"House", "Red">>
Doctor  == <<"Job", "Doctor">>
Teacher == <<"Job", "Teacher">>
Empty   == <<"", "">>

Edge(n1, n2, t) == Fact(n1[1], n1[2], n2[1], n2[2], t)

\* The facts of the path search: one trust score each.
SearchUniverse ==
    { Edge(Alex, Blue, 100),
      Edge(Blue, Alex, 50),
      Edge(Blue, Blue, 100),
      Edge(Blue, Doctor, 100),
      Edge(Alex, Teacher, 50),
      Edge(Brooke, Doctor, 0) }

\* The facts of the queries: one address pair comes under two scores.
FactUniverse ==
    { Edge(Alex, Blue, 100),
      Edge(Alex, Teacher, 50), Edge(Alex, Teacher, 100),
      Edge(Teacher, Alex, 50),
      Edge(Alex, Doctor, 100),
      Edge(Brooke, Doctor, 0) }

Candidates ==
    { <<Alex, Doctor>>, <<Doctor, Alex>>, <<Brooke, Teacher>>,
      <<Alex, Teacher>>, <<Alex, Red>>, <<Empty, Empty>> }

SearchCandidates ==
    { <<Teacher, Brooke>>, <<Brooke, Teacher>>,
      <<Alex, Teacher>>, <<Blue, Blue>> }

\* The paths _calculate_path_trust is applied to on its own: the chain
\* Teacher - Alex - Blue - Doctor - Brooke cut to at most DepthLimit + 1
\* facts (the longest the search returns), under every choice of scores
\* among these.
SampleScores == {0, 1, 25, 80, 90, 100}

Chain == <<Teacher, Alex, Blue, Doctor, Brooke>>

SamplePaths ==
    UNION { {[k \in 1..n |-> Edge(Chain[k], Chain[k + 1], scores[k])] :
                scores \in [1..n -> SampleScores]} :
            n \in 0..(DepthLimit + 1) }

(***************************************************************************)
(* The state machine: a database, and the calls a client makes on it.  A   *)
(* query is invoked (call is set, ret is Pending) and then returns (ret is *)
(* set); the program is single-threaded, so nothing else happens between.  *)
(***************************************************************************)
Idle == stack = <<>> /\ ret # Pending

\* FactDatabase.__init__
Init ==
    /\ facts = <<>>
    /\ call = [op |-> "__init__"]
    /\ ret = None
    /\ stack = <<>>
    /\ visited = {}
    /\ paths = <<>>
    /\ seen_paths = {}

AddFact(fact, bound) ==
    /\ Idle
    /\ FactKey(fact) \in Keys(facts) \/ Len(facts) < bound
    /\ facts' = add_fact(facts, fact)
    /\ call' = [op |-> "add_fact", fact |-> fact]
    /\ ret' = None
    \* the locals of a search that has returned are gone
    /\ visited' = {} /\ paths' = <<>> /\ seen_paths' = {}
    /\ UNCHANGED stack

Invoke(op, key) ==
    /\ Idle
    /\ call' = [op |-> op, key |-> key]
    /\ ret' = Pending
    /\ UNCHANGED <<facts, stack, visited, paths, seen_paths>>

GetFactTrustReturns ==
    /\ call.op = "get_fact_trust" /\ ret = Pending
    /\ ret' = Returned(get_fact_trust(facts, call.key[1][1], call.key[1][2],
                                      call.key[2][1], call.key[2][2]))
    /\ UNCHANGED <<facts, call, stack, visited, paths, seen_paths>>

AnalyzeFactRelationshipsReturns ==
    /\ call.op = "analyze_fact_relationships" /\ ret = Pending
    /\ \E order1 \in IterationOrders(_find_all_connections(
                         facts, call.key[1][1], call.key[1][2])),
          order2 \in IterationOrders(_find_all_connections(
                         facts, call.key[2][1], call.key[2][2])) :
          ret' = Returned(analyze_fact_relationships(facts,
                              call.key[1][1], call.key[1][2],
                              call.key[2][1], call.key[2][2], order1, order2))
    /\ UNCHANGED <<facts, call, stack, visited, paths, seen_paths>>

Next ==
    \/ \E fact \in FactUniverse : AddFact(fact, MaxFacts)
    \/ \E key \in Candidates : Invoke("get_fact_trust", key)
    \/ \E key \in Candidates : Invoke("analyze_fact_relationships", key)
    \/ GetFactTrustReturns
    \/ AnalyzeFactRelationshipsReturns

Spec == Init /\ [][Next]_vars

\* _calculate_path_trust on its own, as a function of the path: the caller
\* has passed a path, and the function returns.
InitTrust ==
    /\ facts = <<>>
    /\ \E path \in SamplePaths :
          call = [op |-> "_calculate_path_trust", path |-> path]
    /\ ret = Pending
    /\ stack = <<>>
    /\ visited = {}
    /\ paths = <<>>
    /\ seen_paths = {}

CalculatePathTrustReturns ==
    /\ call.op = "_calculate_path_trust" /\ ret = Pending
    /\ ret' = Returned(_calculate_path_trust(call.path))
    /\ UNCHANGED <<facts, call, stack, visited, paths, seen_paths>>

NextTrust == CalculatePathTrustReturns

SpecTrust == InitTrust /\ [][NextTrust]_vars

(***************************************************************************)
(* _find_supporting_paths, step by step.  stack holds one record per       *)
(* activation of explore_path, the running one last: its arguments, the    *)
(* position i of its loop over self.facts.items(), and where it stands:    *)
(*   "enter"      at the depth test                                        *)
(*   "loop"       at the head of the loop, about to look at entry i        *)
(*   "connected"  entry i connects: its key is in visited, new_path built  *)
(*   "backtrack"  back from the target test or the recursive call, about   *)
(*                to run visited.remove(key)                               *)
(***************************************************************************)
Top == stack[Len(stack)]

SetTop(frame) == [stack EXCEPT ![Len(stack)] = frame]

Pop == SubSeq(stack, 1, Len(stack) - 1)

\* visited.add(key) and visited.remove(key)
Mark(vis, key) == vis \cup {key}

Release_forgotten(vis, key) == vis

Release(vis, key) == vis \ {key}

BeginSearch(key) ==
    /\ Idle
    /\ call' = [op |-> "_find_supporting_paths", key |-> key]
    /\ ret' = Pending
    /\ visited' = {}
    /\ paths' = <<>>
    /\ seen_paths' = {}
    /\ stack' = << [current |-> key[1], target |-> key[2],
                    current_path |-> <<>>, depth |-> 0, i |-> 1,
                    pc |-> "enter"] >>
    /\ UNCHANGED facts

\* `if depth > 3: return`
Enter ==
    /\ stack # <<>> /\ Top.pc = "enter"
    /\ stack' = IF Top.depth > DepthLimit THEN Pop
                ELSE SetTop([Top EXCEPT !.pc = "loop"])
    /\ UNCHANGED <<facts, call, ret, visited, paths, seen_paths>>

\* `if key in visited: continue`, or the fact does not connect
Skip ==
    /\ stack # <<>> /\ Top.pc = "loop" /\ Top.i <= Len(facts)
    /\ \/ FactKey(facts[Top.i]) \in visited
       \/ ~Hop(facts[Top.i], Top.current).connects_to_current
    /\ stack' = SetTop([Top EXCEPT !.i = @ + 1])
    /\ UNCHANGED <<facts, call, ret, visited, paths, seen_paths>>

\* `visited.add(key); new_path = current_path + [fact]`
Visit ==
    /\ stack # <<>> /\ Top.pc = "loop" /\ Top.i <= Len(facts)
    /\ FactKey(facts[Top.i]) \notin visited
    /\ Hop(facts[Top.i], Top.current).connects_to_current
    /\ visited' = Mark(visited, FactKey(facts[Top.i]))
    /\ stack' = SetTop([Top EXCEPT !.pc = "connected"])
    /\ UNCHANGED <<facts, call, ret, paths, seen_paths>>

\* the target is reached: record the path unless its key set was seen
Reach ==
    /\ stack # <<>> /\ Top.pc = "connected"
    /\ Hop(facts[Top.i], Top.current).next = Top.target
    /\ LET found == RecordPath([paths |-> paths, seen_paths |-> seen_paths],
                               Append(Top.current_path, facts[Top.i]))
       IN  /\ paths' = found.paths
           /\ seen_paths' = found.seen_paths
    /\ stack' = SetTop([Top EXCEPT !.pc = "backtrack"])
    /\ UNCHANGED <<facts, call, ret, visited>>

\* `explore_path(next_val, next_cat, target_val, target_cat, new_path, depth + 1)`
Recurse ==
    /\ stack # <<>> /\ Top.pc = "connected"
    /\ Hop(facts[Top.i], Top.current).next # Top.target
    /\ stack' = Append(SetTop([Top EXCEPT !.pc = "backtrack"]),
                  [current |-> Hop(facts[Top.i], Top.current).next,
                   target |-> Top.target,
                   current_path |-> Append(Top.current_path, facts[Top.i]),
                   depth |-> Top.depth + 1, i |-> 1, pc |-> "enter"])
    /\ UNCHANGED <<facts, call, ret, visited, paths, seen_paths>>

\* `visited.remove(key)`, and on to the next entry
Backtrack ==
    /\ stack # <<>> /\ Top.pc = "backtrack"
    /\ visited' = Release(visited, FactKey(facts[Top.i]))
    /\ stack' = SetTop([Top EXCEPT !.pc = "loop", !.i = @ + 1])
    /\ UNCHANGED <<facts, call, ret, paths, seen_paths>>

\* the loop is over: explore_path returns; the outermost one ends the search,
\* and _find_supporting_paths returns paths
LoopEnd ==
    /\ stack # <<>> /\ Top.pc = "loop" /\ Top.i > Len(facts)
    /\ stack' = Pop
    /\ ret' = IF Len(stack) = 1 THEN Returned(paths) ELSE ret
    /\ UNCHANGED <<facts, call, visited, paths, seen_paths>>

NextSearch ==
    \/ \E fact \in SearchUniverse : AddFact(fact, MaxSearchFacts)
    \/ \E key \in SearchCandidates : BeginSearch(key)
    \/ Enter
    \/ Skip
    \/ Visit
    \/ Reach
    \/ Recurse
    \/ Backtrack
    \/ LoopEnd

SpecSearch == Init /\ [][NextSearch]_vars

\* The step-by-step search returns what the function computes.
SearchAgrees ==
    (call.op = "_find_supporting_paths" /\ ret # Pending)
        => ret.value = _find_supporting_paths(facts, call.key)

(***************************************************************************)
(* What the claims are stated with.  None of this is taken from the code:  *)
(* the contradiction relation is the one of the specification's words, and *)
(* the qualifying walks are enumerated without a visited set, a depth      *)
(* counter or a store order.                                               *)
(***************************************************************************)
Node1(fact) == <<fact.category1, fact.value1>>
Node2(fact) == <<fact.category2, fact.value2>>

\* The stored fact has the candidate's ordered category pair, and exactly
\* one of its two values equals the candidate's value on the same side.
Contradicts(key, fact) ==
    /\ fact.category1 = key[1][1]
    /\ fact.category2 = key[2][1]
    /\ (fact.value1 = key[1][2]) # (fact.value2 = key[2][2])

Touches(fact, node) == Node1(fact) = node \/ Node2(fact) = node

OtherEnd(fact, node) == IF Node1(fact) = node THEN Node2(fact) ELSE Node1(fact)

Range(w) == {w[k] : k \in 1..Len(w)}

\* The node a walk over the facts db[w[1]], db[w[2]], ... ends at.
RECURSIVE EndOf(_, _, _)
EndOf(db, w, start) ==
    IF w = <<>> THEN start
    ELSE OtherEnd(db[w[Len(w)]], EndOf(db, SubSeq(w, 1, Len(w) - 1), start))

\* The walks of exactly n facts that leave start, join consecutive facts at
\* a shared node, use no fact twice and have not arrived at target before
\* their last fact; as sequences of positions in the store.
RECURSIVE WalksOfLength(_, _, _, _)
WalksOfLength(db, start, target, n) ==
    IF n = 0 THEN {<<>>}
    ELSE UNION {
           {Append(w, i) :
              i \in {j \in 1..Len(db) :
                       j \notin Range(w) /\ Touches(db[j], EndOf(db, w, start))}} :
           w \in {v \in WalksOfLength(db, start, target, n - 1) :
                    v = <<>> \/ EndOf(db, v, start) # target} }

\* The qualifying walks of at most n facts.
QualifyingWalks(db, start, target, n) ==
    {w \in UNION {WalksOfLength(db, start, target, k) : k \in 1..n} :
        EndOf(db, w, start) = target}

FactsOf(db, w) == [k \in 1..Len(w) |-> db[w[k]]]

KeysOf(db, w) == {FactKey(db[w[k]]) : k \in 1..Len(w)}

GotTrust == call.op = "get_fact_trust" /\ ret # Pending
Analyzed == call.op = "analyze_fact_relationships" /\ ret # Pending
Searched == call.op = "_find_supporting_paths" /\ ret # Pending

\* The stored facts that contradict the candidate of the last call.
Contradicting == {i \in 1..Len(facts) : Contradicts(call.key, facts[i])}

\* The greatest trust score among the contradicting facts.
MaxContradictingScore ==
    CHOOSE m \in {facts[i].trust_score : i \in Contradicting} :
        \A i \in Contradicting : facts[i].trust_score <= m

\* The walks that qualify as support for the candidate of the last call.
SupportWalks ==
    QualifyingWalks(facts, call.key[1], call.key[2], 4)

(***************************************************************************)
(* Claims about the two public queries, under Spec.                        *)
(***************************************************************************)
\* C1: whenever at least one stored fact directly contradicts the candidate,
\* get_fact_trust returns max(0, 100 - m), m being the largest trust_score
\* among the contradicting facts, whether or not a supporting path between
\* the two candidate nodes exists as well.
C1_ContradictionDominates ==
    (GotTrust /\ Contradicting # {}) =>
        ret.value = Num(IF 100 - MaxContradictingScore > 0
                        THEN 100 - MaxContradictingScore ELSE 0)

\* get_fact_trust has returned for a candidate that two stored facts of
\* different scores contradict and that a supporting path connects as well.
C1_Witness ==
    /\ GotTrust
    /\ \E i, j \in Contradicting : facts[i].trust_score # facts[j].trust_score
    /\ SupportWalks # {}

\* C2: direct_contradictions of analyze_fact_relationships holds exactly the
\* stored facts that have the candidate's ordered category pair and exactly
\* one value equal to the candidate's on the same side, each once; a stored
\* fact equal to the candidate on both sides, different on both, or with the
\* categories swapped is not reported, and no fact contradicts itself.
C2_DirectContradictionsExact ==
    Analyzed =>
        LET d == ret.value.direct_contradictions
        IN  /\ {d[i].fact : i \in 1..Len(d)} = {facts[i] : i \in Contradicting}
            /\ Len(d) = Cardinality(Contradicting)
            /\ \A i \in 1..Len(d) : d[i].trust = Num(d[i].fact.trust_score)
            /\ \A i \in 1..Len(facts) :
                   ~_directly_contradicts(FactKey(facts[i]), FactKey(facts[i]))

\* The analysis has returned for a candidate with a reported fact in the
\* store, next to a fact with the candidate's own address pair and a fact
\* with the categories swapped that shares exactly one value with it.
C2_Witness ==
    /\ Analyzed
    /\ ret.value.direct_contradictions # <<>>
    /\ \E i \in 1..Len(facts) : FactKey(facts[i]) = call.key
    /\ \E i \in 1..Len(facts) :
          /\ facts[i].category1 = call.key[2][1]
          /\ facts[i].category2 = call.key[1][1]
          /\ facts[i].category1 # facts[i].category2
          /\ (facts[i].value1 = call.key[2][2]) # (facts[i].value2 = call.key[1][2])

\* C5: when no stored fact has either candidate node as an endpoint (the
\* store may be empty, the strings unknown or empty), get_fact_trust returns
\* exactly 50.
C5_NeutralDefault ==
    (GotTrust /\ \A i \in 1..Len(facts) :
                    ~Touches(facts[i], call.key[1]) /\ ~Touches(facts[i], call.key[2]))
        => ret.value = Num(50)

\* get_fact_trust has returned for the candidate of empty strings on a store
\* of several facts.
C5_Witness ==
    /\ GotTrust
    /\ call.key = <<Empty, Empty>>
    /\ Len(facts) >= 2
    /\ ret.value = Num(50)

\* C6: every add_fact leaves exactly one entry per address pair; the entry
\* under the added pair is the fact just added, every entry under another
\* pair is as it was, and no other pair appears or disappears (so a pair
\* and its reverse are two keys).
C6_LastWriteWins ==
    [][ call'.op = "add_fact" =>
          /\ \A i, j \in 1..Len(facts') :
                 FactKey(facts'[i]) = FactKey(facts'[j]) => i = j
          /\ \E i \in 1..Len(facts') : facts'[i] = call'.fact
          /\ Keys(facts') = Keys(facts) \cup {FactKey(call'.fact)}
          /\ \A i \in 1..Len(facts) :
                 FactKey(facts[i]) # FactKey(call'.fact)
                     => \E j \in 1..Len(facts') : facts'[j] = facts[i] ]_vars

\* add_fact has just replaced an entry that is not the last of the store
\* (the pair was there already), and the reversed pair is stored too.
C6_Witness ==
    /\ call.op = "add_fact"
    /\ FactKey(facts[Len(facts)]) # FactKey(call.fact)
    /\ \E i \in 1..Len(facts) : facts[i] = call.fact
    /\ \E i \in 1..Len(facts) :
          FactKey(facts[i]) = <<FactKey(call.fact)[2], FactKey(call.fact)[1]>>

\* C9: every path of indirect_contradictions ends in a fact that directly
\* contradicts the candidate; every fact of direct_contradictions is in
\* indirect_contradictions as the path of that one fact, with the fact's own
\* trust_score as impact; so indirect_contradictions is non-empty whenever
\* direct_contradictions is.
C9_DirectAmongIndirect ==
    Analyzed =>
        LET d == ret.value.direct_contradictions
            ind == ret.value.indirect_contradictions
        IN  /\ \A i \in 1..Len(ind) :
                  /\ ind[i].path # <<>>
                  /\ Contradicts(call.key, ind[i].path[Len(ind[i].path)])
            /\ \A i \in 1..Len(d) : \E j \in 1..Len(ind) :
                  /\ ind[j].path = <<d[i].fact>>
                  /\ ind[j].trust = Num(d[i].fact.trust_score)
            /\ (Len(d) > 0 => Len(ind) > 0)

\* The analysis has returned with a direct contradiction and with an
\* indirect one of several facts.
C9_Witness ==
    /\ Analyzed
    /\ ret.value.direct_contradictions # <<>>
    /\ \E j \in 1..Len(ret.value.indirect_contradictions) :
          Len(ret.value.indirect_contradictions[j].path) > 1

(***************************************************************************)
(* Claims about the path search, under SpecSearch.                         *)
(***************************************************************************)
\* The path the running search is on: current_path of the running
\* activation, with the fact it has just marked when it stands behind
\* visited.add(key).
InProgressPath ==
    IF stack = <<>> THEN <<>>
    ELSE IF Top.pc \in {"connected", "backtrack"}
    THEN Append(Top.current_path, facts[Top.i])
    ELSE Top.current_path

\* Every walk from the first candidate node to the second, of any length.
AllWalks ==
    QualifyingWalks(facts, call.key[1], call.key[2], Len(facts))

\* C3: the list _find_supporting_paths returns (supporting_facts of the
\* analysis) has exactly one path for each distinct set of stored facts that
\* forms a qualifying walk of at most 4 facts, and nothing else: its fact
\* sets are those of the qualifying walks, no two entries have the same fact
\* set, and every entry is itself a qualifying walk.
C3_OnePathPerFactSet ==
    Searched =>
        LET R == ret.value
        IN  /\ {PathKey(R[i]) : i \in 1..Len(R)}
                  = {KeysOf(facts, w) : w \in SupportWalks}
            /\ \A i, j \in 1..Len(R) : PathKey(R[i]) = PathKey(R[j]) => i = j
            /\ \A i \in 1..Len(R) :
                  \E w \in SupportWalks : R[i] = FactsOf(facts, w)

\* The search has returned 2 paths where two different qualifying walks run
\* over one and the same set of facts.
C3_Witness ==
    /\ Searched
    /\ Len(ret.value) = 2
    /\ \E w1, w2 \in SupportWalks :
          w1 # w2 /\ KeysOf(facts, w1) = KeysOf(facts, w2)

\* C7: no returned path has more than 4 facts, and when the only walk from
\* the start node to the target node is a chain of exactly 4 facts, the
\* search returns that path.
C7_DepthBoundTight ==
    Searched =>
        /\ \A i \in 1..Len(ret.value) : Len(ret.value[i]) <= 4
        /\ \A w \in AllWalks :
              (AllWalks = {w} /\ Len(w) = 4) => ret.value = <<FactsOf(facts, w)>>

\* The search has returned on a store whose only walk between the two nodes
\* has exactly 4 facts.
C7_Witness ==
    /\ Searched
    /\ \E w \in AllWalks : AllWalks = {w} /\ Len(w) = 4
    /\ Len(ret.value) = 1

\* C8: at every step of a search, visited is exactly the set of address
\* pairs of the facts on the in-progress path; it is empty when the search
\* returns, and no returned path holds the same stored fact twice.
C8_VisitedIsPath ==
    /\ visited = PathKey(InProgressPath)
    /\ Searched =>
          /\ visited = {}
          /\ \A i \in 1..Len(ret.value) :
                Cardinality(PathKey(ret.value[i])) = Len(ret.value[i])

\* The search has returned two different paths that share a stored fact.
C8_Witness ==
    /\ Searched
    /\ \E i, j \in 1..Len(ret.value) :
          i # j /\ PathKey(ret.value[i]) \cap PathKey(ret.value[j]) # {}

\* C10: the search from the first candidate node to the second finds a path
\* if and only if the search from the second to the first finds one.
C10_SupportExistsBothWays ==
    Searched =>
        ((ret.value # <<>>)
            <=> (_find_supporting_paths(facts, <<call.key[2], call.key[1]>>)
                     # <<>>))

\* The search has returned paths between two different nodes where the
\* search the other way round returns a different number of paths.
C10_Witness ==
    /\ Searched
    /\ call.key[1] # call.key[2]
    /\ ret.value # <<>>
    /\ Len(ret.value)
           # Len(_find_supporting_paths(facts, <<call.key[2], call.key[1]>>))

(***************************************************************************)
(* Claims about the trust arithmetic, under SpecTrust.                     *)
(***************************************************************************)
PathTrusted == call.op = "_calculate_path_trust" /\ ret # Pending

Scores == {call.path[i].trust_score : i \in 1..Len(call.path)}

\* C4, as claimed: for every path of two or more facts with scores in
\* 0..100, _calculate_path_trust is strictly less than the trust_score of
\* every fact on the path.
C4_StrictDecay ==
    (PathTrusted /\ Len(call.path) >= 2) =>
        \A t \in Scores : FloatLess(ret.value, Num(t))

\* C4, amended: for every path of two or more facts with integer scores in
\* 0..100, _calculate_path_trust is never greater than the trust_score of
\* any fact on the path, and it is strictly less than every one of them
\* unless some score is 0 or all scores are 100.
C4_DecayUnlessZeroOrFull ==
    (PathTrusted /\ Len(call.path) >= 2) =>
        /\ \A t \in Scores : FloatLeq(ret.value, Num(t))
        /\ (0 \notin Scores /\ Scores # {100})
              => \A t \in Scores : FloatLess(ret.value, Num(t))

\* The function has returned a positive trust for a path of 4 facts, one of
\* them of score 100 and one of a lower score.
C4_Witness ==
    /\ PathTrusted
    /\ Len(call.path) = 4
    /\ 0 \notin Scores /\ 100 \in Scores /\ Scores # {100}
    /\ FloatLess(Num(0), ret.value)

=============================================================================
